---- MODULE Spec2Model ----
(***************************************************************************)
(* Model of the KENOS PROXX worker: the fetch-event handler handleRequest  *)
(* in its two deployments,                                                 *)
(*   "proxx"   src/src/worker.js      (target follows the /proxx/ marker)  *)
(*   "binding" src/unnamed/part_000   (target follows the leading '/').    *)
(* A JavaScript string is a sequence of Unicode code points; the fixed     *)
(* response bodies are kept as TLA+ strings.                               *)
(***************************************************************************)
EXTENDS Integers, Sequences, FiniteSets, TLC

\* ------------------------------------------------------------------ bounds

\* longest generated (not hand-picked) path segment
MaxLen == 3

\* number of fetch events in flight together under SpecConc
NumRequests == 2

\* ------------------------------------------------- JavaScript string helpers

\* code points of the characters used to write the inputs down
Chr ==
    ("/" :> 47) @@ (":" :> 58) @@ ("%" :> 37) @@ ("?" :> 63) @@ ("=" :> 61) @@
    ("H" :> 72) @@ ("T" :> 84) @@ ("P" :> 80) @@
    ("." :> 46) @@ ("1" :> 49) @@ ("2" :> 50) @@ ("3" :> 51) @@ ("A" :> 65) @@
    ("F" :> 70) @@ ("a" :> 97) @@ ("b" :> 98) @@ ("f" :> 102) @@ ("h" :> 104) @@
    ("o" :> 111) @@ ("p" :> 112) @@ ("q" :> 113) @@ ("r" :> 114) @@
    ("s" :> 115) @@ ("t" :> 116) @@ ("x" :> 120) @@ ("z" :> 122) @@
    ("e'" :> 233) @@ ("euro" :> 8364) @@ ("grin" :> 128512)

\* the string written as a tuple of character names
Str(t) == [k \in 1..Len(t) |-> Chr[t[k]]]

\* String.prototype.startsWith
startsWith(s, p) == Len(s) >= Len(p) /\ SubSeq(s, 1, Len(p)) = p

\* String.prototype.indexOf: 0-based index of the first occurrence, or -1
indexOf(s, p) ==
    LET hits == {k \in 0..(Len(s) - Len(p)) : SubSeq(s, k + 1, k + Len(p)) = p}
    IN IF hits = {} THEN -1 ELSE CHOOSE k \in hits : \A j \in hits : k <= j

\* String.prototype.substring(start), start a 0-based index
substring(s, start) == SubSeq(s, start + 1, Len(s))

\* value of a hexadecimal digit, -1 when the code point is none
HexVal(c) ==
    IF c >= 48 /\ c <= 57 THEN c - 48
    ELSE IF c >= 65 /\ c <= 70 THEN c - 55
    ELSE IF c >= 97 /\ c <= 102 THEN c - 87
    ELSE -1

\* a decoder that looks at the first digit of an escape only
IsEscapeFirstDigit(s, k) ==
    /\ k + 2 <= Len(s)
    /\ s[k] = 37
    /\ HexVal(s[k + 1]) >= 0

\* does a %XX escape start at index k (1-based) of s
IsEscape(s, k) ==
    /\ k + 2 <= Len(s)
    /\ s[k] = 37
    /\ HexVal(s[k + 1]) >= 0
    /\ HexVal(s[k + 2]) >= 0

\* the octet written by the escape at index k
Octet(s, k) == 16 * HexVal(s[k + 1]) + HexVal(s[k + 2])

\* number of leading 1 bits of an octet (5 stands for "5 or more")
LeadingOnes(b) ==
    IF b < 128 THEN 0
    ELSE IF b < 192 THEN 1
    ELSE IF b < 224 THEN 2
    ELSE IF b < 240 THEN 3
    ELSE IF b < 248 THEN 4
    ELSE 5

\* code point written by a UTF-8 sequence of n >= 2 octets, -1 when the
\* octets are no valid encoding (bad continuation, overlong, surrogate, range)
UTF8CodePoint(octets) ==
    LET n == Len(octets)
        contOk == \A j \in 2..n : octets[j] >= 128 /\ octets[j] <= 191
        cp == IF n = 2 THEN (octets[1] - 192) * 64 + (octets[2] - 128)
              ELSE IF n = 3 THEN (octets[1] - 224) * 4096 + (octets[2] - 128) * 64
                                 + (octets[3] - 128)
              ELSE (octets[1] - 240) * 262144 + (octets[2] - 128) * 4096
                   + (octets[3] - 128) * 64 + (octets[4] - 128)
        lo == IF n = 2 THEN 128 ELSE IF n = 3 THEN 2048 ELSE 65536
    IN IF contOk /\ cp >= lo /\ cp <= 1114111 /\ ~(cp >= 55296 /\ cp <= 57343)
       THEN cp ELSE -1

\* the Decode abstract operation of ECMAScript from index k on:
\* [error |-> TRUE] stands for the URIError thrown
RECURSIVE Decode(_, _)
Decode(s, k) ==
    IF k > Len(s) THEN [error |-> FALSE, value |-> <<>>]
    ELSE IF s[k] # 37 THEN
        LET rest == Decode(s, k + 1)
        IN IF rest.error THEN rest
           ELSE [error |-> FALSE, value |-> <<s[k]>> \o rest.value]
    ELSE IF ~IsEscape(s, k) THEN [error |-> TRUE, value |-> <<>>]
    ELSE
        LET b == Octet(s, k)
            n == LeadingOnes(b)
        IN IF n = 0 THEN
               LET rest == Decode(s, k + 3)
               IN IF rest.error THEN rest
                  ELSE [error |-> FALSE, value |-> <<b>> \o rest.value]
           ELSE IF n = 1 \/ n > 4 THEN [error |-> TRUE, value |-> <<>>]
           ELSE IF k + 3 * n - 1 > Len(s) THEN [error |-> TRUE, value |-> <<>>]
           ELSE IF \E j \in 1..(n - 1) : ~IsEscape(s, k + 3 * j)
                THEN [error |-> TRUE, value |-> <<>>]
           ELSE
               LET octets == [j \in 1..n |-> Octet(s, k + 3 * (j - 1))]
                   cp == UTF8CodePoint(octets)
                   rest == Decode(s, k + 3 * n)
               IN IF cp < 0 THEN [error |-> TRUE, value |-> <<>>]
                  ELSE IF rest.error THEN rest
                  ELSE [error |-> FALSE, value |-> <<cp>> \o rest.value]

\* decodeURIComponent(s): the decoded string, or the URIError thrown
decodeURIComponent(s) == Decode(s, 1)

\* uppercase hexadecimal digit of a value 0..15
HexDigit(v) == IF v < 10 THEN 48 + v ELSE 55 + v

\* the escape %XX of an octet
Escape(b) == <<37, HexDigit(b \div 16), HexDigit(b % 16)>>

\* the UTF-8 octets of a code point
UTF8Octets(cp) ==
    IF cp < 128 THEN <<cp>>
    ELSE IF cp < 2048 THEN <<192 + (cp \div 64), 128 + (cp % 64)>>
    ELSE IF cp < 65536 THEN
        <<224 + (cp \div 4096), 128 + ((cp \div 64) % 64), 128 + (cp % 64)>>
    ELSE <<240 + (cp \div 262144), 128 + ((cp \div 4096) % 64),
           128 + ((cp \div 64) % 64), 128 + (cp % 64)>>

\* the characters encodeURIComponent leaves alone: A-Z a-z 0-9 - _ . ! ~ * ' ( )
Unreserved(c) ==
    \/ c >= 65 /\ c <= 90
    \/ c >= 97 /\ c <= 122
    \/ c >= 48 /\ c <= 57
    \/ c \in {45, 95, 46, 33, 126, 42, 39, 40, 41}

RECURSIVE EscapeAll(_)
EscapeAll(octets) ==
    IF octets = <<>> THEN <<>>
    ELSE Escape(Head(octets)) \o EscapeAll(Tail(octets))

\* encodeURIComponent(s), the percent-encoding the callers of the worker apply
RECURSIVE encodeURIComponent(_)
encodeURIComponent(s) ==
    IF s = <<>> THEN <<>>
    ELSE (IF Unreserved(Head(s)) THEN <<Head(s)>> ELSE EscapeAll(UTF8Octets(Head(s))))
         \o encodeURIComponent(Tail(s))

\* ------------------------------------------------------------------ state

VARIABLES
    mode,           \* the deployment: "proxx" (worker.js) or "binding" (part_000)
    pc,             \* pc[i]: where the handler of fetch event i stands
    request,        \* request[i]: <<event.request>> once the event is dispatched
    proxyRequest,   \* proxyRequest[i]: <<the Request built for the target>>
    fetched,        \* fetched[i]: the requests handed to fetch(), in order
    upstream,       \* upstream[i]: <<the Response fetch() resolved with>>
    fetchError,     \* fetchError[i]: <<the error fetch() rejected with>>
    response,       \* response[i]: <<the Response handleRequest returned>>
    console         \* the messages written by console.error, in order

vars == <<mode, pc, request, proxyRequest, fetched, upstream, fetchError,
          response, console>>

Modes == {"proxx", "binding"}

\* the fetch events of a run
Events == 1..NumRequests

\* positions at which handleRequest has returned a Response
Returned == {"return_root", "return_encoding", "return_format",
             "return_response", "return_failed"}

\* ------------------------------------------------------------- Headers API

\* header names are byte-lowercased by the Headers object
LowerCase(name) ==
    CASE name = "Access-Control-Allow-Origin" -> "access-control-allow-origin"
      [] name = "Content-Type" -> "content-type"
      [] OTHER -> name

\* Headers.prototype.delete
HeadersDelete(headers, name) ==
    [n \in (DOMAIN headers) \ {LowerCase(name)} |-> headers[n]]

\* Headers.prototype.set
HeadersSet(headers, name, value) ==
    [n \in (DOMAIN headers) \cup {LowerCase(name)} |->
        IF n = LowerCase(name) THEN value ELSE headers[n]]

\* new Response(text, {status}): a string body gets the text/plain content type
TextResponse(text, status) ==
    [status |-> status,
     headers |-> [n \in {"content-type"} |-> "text/plain;charset=UTF-8"],
     body |-> text]

\* ------------------------------------------------- src/src/worker.js

\* const proxyPrefix = '/proxx/'
proxyPrefix == Str(<<"/", "p", "r", "o", "x", "x", "/">>)

HttpScheme == Str(<<"h", "t", "t", "p", ":", "/", "/">>)
HttpsScheme == Str(<<"h", "t", "t", "p", "s", ":", "/", "/">>)

\* a looser test: any string that begins with "http" passes
InvalidTargetFormatLoose(targetUrl) ==
    \/ targetUrl = <<>>
    \/ ~startsWith(targetUrl, Str(<<"h", "t", "t", "p">>))

\* the test of the if statement guarding the 400 'Invalid target URL format'
InvalidTargetFormat(targetUrl) ==
    \/ targetUrl = <<>>
    \/ ~startsWith(targetUrl, HttpScheme) /\ ~startsWith(targetUrl, HttpsScheme)

\* does new Request(targetUrl, ...) parse targetUrl, a string that begins with
\* http:// or https://: the URL parser skips the slashes after the scheme
\* and fails on an empty host.  (Over the inputs below no other failure of
\* the parser arises: they hold no whitespace, '@', port or bracket.)
RECURSIVE SkipSlashes(_)
SkipSlashes(s) ==
    IF s # <<>> /\ Head(s) \in {47, 92} THEN SkipSlashes(Tail(s)) ELSE s

RequestURLParses(targetUrl) ==
    LET afterScheme == IF startsWith(targetUrl, HttpsScheme)
                       THEN substring(targetUrl, 6)
                       ELSE substring(targetUrl, 5)
        authority == SkipSlashes(afterScheme)
    IN authority # <<>> /\ Head(authority) \notin {63, 35}

\* the outcome of the synchronous part of handleRequest
Return(at, resp) == [pc |-> at, response |-> <<resp>>, proxyRequest |-> <<>>]
Throw == [pc |-> "threw", response |-> <<>>, proxyRequest |-> <<>>]
Await(req) == [pc |-> "await", response |-> <<>>, proxyRequest |-> <<req>>]

\* createRootResponse(hostname) of worker.js: the link holds the hostname
createRootResponseProxx(hostname) ==
    [status |-> 200,
     headers |-> [n \in {"content-type"} |-> "text/html"],
     body |-> "<title>KENOS PROXX Root by ig0</title> <a href=\"https://"
              \o hostname \o "/\">Go to Homepage</a>"]

\* a forwarding request that drops the inbound method and body
NewProxyRequestAsGet(targetUrl, req) ==
    [url |-> targetUrl,
     method |-> "GET",
     headers |-> req.headers,
     body |-> "null",
     redirect |-> "follow"]

\* new Request(targetUrl, {method, headers, body, redirect: 'follow'})
NewProxyRequest(targetUrl, req) ==
    [url |-> targetUrl,
     method |-> req.method,
     headers |-> req.headers,
     body |-> req.body,
     redirect |-> "follow"]

\* a slip in the extraction: the marker's length is not skipped
encodedTargetUrlFromMarker(pathname, urlStartIndex) ==
    substring(pathname, urlStartIndex)

\* url.pathname.substring(urlStartIndex + proxyPrefix.length)
encodedTargetUrlProxx(pathname, urlStartIndex) ==
    substring(pathname, urlStartIndex + Len(proxyPrefix))

\* handleRequest of worker.js up to its await
handleRequestProxx(req) ==
    LET urlStartIndex == indexOf(req.pathname, proxyPrefix)
        encodedTargetUrl == encodedTargetUrlProxx(req.pathname, urlStartIndex)
        decoded == decodeURIComponent(encodedTargetUrl)
        targetUrl == decoded.value
    IN IF urlStartIndex = -1 THEN
           Return("return_root", createRootResponseProxx(req.hostname))
       ELSE IF decoded.error THEN
           Return("return_encoding", TextResponse("Invalid URL encoding.", 400))
       ELSE IF InvalidTargetFormat(targetUrl) THEN
           Return("return_format", TextResponse("Invalid target URL format.", 400))
       ELSE IF ~RequestURLParses(targetUrl) THEN Throw
       ELSE Await(NewProxyRequest(targetUrl, req))

\* the try block of worker.js after fetch resolved: copy, strip two headers
sanitizeProxx(resp) ==
    LET newResponse == [status |-> resp.status, headers |-> resp.headers,
                        body |-> resp.body]
        h1 == HeadersDelete(newResponse.headers, "content-security-policy")
        h2 == HeadersDelete(h1, "x-frame-options")
    IN [newResponse EXCEPT !.headers = h2]

\* the message of the error logged last, by whichever request
ErrorMessageLastLogged(error) ==
    IF console # <<>> THEN console[Len(console)] ELSE error.message

\* the message interpolated into the 500 body
ErrorMessage(error) == error.message

\* a catch block that reports no cause
catchProxxNoMessage(error) ==
    TextResponse("Failed to fetch target URL", 500)

\* the catch block of worker.js
catchProxx(error) ==
    TextResponse("Failed to fetch target URL: " \o ErrorMessage(error), 500)

\* ------------------------------------------------- src/unnamed/part_000

\* a root page served as an error
createRootResponseNotFound ==
    [status |-> 404,
     headers |-> [n \in {"content-type"} |-> "text/html"],
     body |-> "<title>KENOS PROXX Root by ig0</title> Please use the main Pages URL"]

\* createRootResponse() of part_000: a fixed document
createRootResponseBinding ==
    [status |-> 200,
     headers |-> [n \in {"content-type"} |-> "text/html"],
     body |-> "<title>KENOS PROXX Root by ig0</title> Please use the main Pages URL"]

\* handleRequest of part_000 up to its await
handleRequestBinding(req) ==
    LET path == req.pathname
        encodedTargetUrl == substring(path, 1)
        decoded == decodeURIComponent(encodedTargetUrl)
        targetUrl == decoded.value
    IN IF Len(path) <= 1 THEN Return("return_root", createRootResponseBinding)
       ELSE IF decoded.error THEN
           Return("return_encoding", TextResponse("Invalid URL encoding.", 400))
       ELSE IF InvalidTargetFormat(targetUrl) THEN
           Return("return_format",
                  TextResponse("Invalid target URL format. Must start with http:// or https://",
                               400))
       ELSE IF ~RequestURLParses(targetUrl) THEN Throw
       ELSE Await(NewProxyRequest(targetUrl, req))

\* a sanitizer that names the header in another case than the Headers
\* object stores it, and so removes nothing
sanitizeBindingKeepsFrameOptions(resp) ==
    LET newResponse == [status |-> resp.status, headers |-> resp.headers,
                        body |-> resp.body]
        h1 == HeadersDelete(newResponse.headers, "content-security-policy")
        h3 == HeadersSet(h1, "Access-Control-Allow-Origin", "*")
    IN [newResponse EXCEPT !.headers = h3]

\* the try block of part_000 after fetch resolved: copy, strip, add CORS
sanitizeBinding(resp) ==
    LET newResponse == [status |-> resp.status, headers |-> resp.headers,
                        body |-> resp.body]
        h1 == HeadersDelete(newResponse.headers, "content-security-policy")
        h2 == HeadersDelete(h1, "x-frame-options")
        h3 == HeadersSet(h2, "Access-Control-Allow-Origin", "*")
    IN [newResponse EXCEPT !.headers = h3]

\* the catch block of part_000
catchBinding(error) ==
    TextResponse("Failed to fetch target URL: " \o ErrorMessage(error), 500)

\* ------------------------------------------------- the deployed handler

handleRequest(m, req) ==
    IF m = "proxx" THEN handleRequestProxx(req) ELSE handleRequestBinding(req)

sanitize(m, resp) ==
    IF m = "proxx" THEN sanitizeProxx(resp) ELSE sanitizeBinding(resp)

catch(m, error) ==
    IF m = "proxx" THEN catchProxx(error) ELSE catchBinding(error)

\* ------------------------------------------------------------------ inputs

\* absolute http(s) URLs, written with the lowercase scheme and "://"
URLs == {
    Str(<<"h", "t", "t", "p", ":", "/", "/", "a">>),
    Str(<<"h", "t", "t", "p", "s", ":", "/", "/", "a", "/", "b", "?", "q", "=", "1">>),
    Str(<<"h", "t", "t", "p", "s", ":", "/", "/", "a", "/", "e'", "euro", "grin">>),
    Str(<<"h", "t", "t", "p", ":", "/", "/", "a", "/", "%", "2", "F">>) }

\* targets that are no http(s) URL, before encoding
NonHttpTargets == {
    Str(<<"f", "t", "p", ":", "/", "/", "a">>),
    Str(<<"a", "/", "b">>),
    Str(<<"H", "T", "T", "P", ":", "/", "/", "a">>),
    Str(<<"h", "t", "t", "p", ":", "/", "a">>),
    Str(<<"p", "r", "o", "x", "x">>) }

\* targets with the scheme and no host: new Request rejects them
HostlessTargets == {
    Str(<<"h", "t", "t", "p", ":", "/", "/">>),
    Str(<<"h", "t", "t", "p", "s", ":", "/", "/", "/">>) }

\* an invalid escape before and after a well-formed start
BadEscape == Str(<<"%", "z", "z">>)

\* the characters of the generated segments: % 2 F z
Alphabet == {37, 50, 70, 122}

GeneratedSegments == UNION {[1..k -> Alphabet] : k \in 0..MaxLen}

\* literal (unencoded) targets a URL pathname can hold
LiteralSegments == {
    Str(<<"h", "t", "t", "p", ":", "/", "/", "a">>),
    Str(<<"h", "t", "t", "p", "s", ":", "/", "/", "a", "/", "b">>) }

Segments ==
    GeneratedSegments
    \cup {encodeURIComponent(u) : u \in URLs \cup NonHttpTargets \cup HostlessTargets}
    \cup {encodeURIComponent(u) \o BadEscape : u \in URLs}
    \cup {BadEscape \o encodeURIComponent(u) : u \in URLs}
    \cup LiteralSegments

\* the pathnames new URL(request.url) yields: '/' and a segment, with or
\* without the /proxx/ marker, the marker also deeper in the path
Pathnames ==
    {Str(<<"/">>) \o s : s \in Segments}
    \cup {proxyPrefix \o s : s \in Segments}
    \cup {Str(<<"/", "a">>) \o proxyPrefix \o encodeURIComponent(u) : u \in URLs}

Hostnames == {"kenos.example"}

\* method and body of the inbound request: a GET carries no body
MethodsAndBodies == {<<"GET", "null">>, <<"POST", "payload">>}

RequestHeaders == {
    [n \in {"host"} |-> "kenos.example"],
    [n \in {"host", "authorization"} |->
        IF n = "host" THEN "kenos.example" ELSE "Bearer t"] }

InboundRequests ==
    {[method |-> mb[1], body |-> mb[2], pathname |-> p, hostname |-> h, headers |-> hs] :
        mb \in MethodsAndBodies, p \in Pathnames, h \in Hostnames, hs \in RequestHeaders}

\* the values upstream headers carry
UpstreamHeaderValue ==
    [n \in {"content-type", "content-security-policy", "x-frame-options",
            "access-control-allow-origin", "set-cookie"} |->
        CASE n = "content-type" -> "text/html"
          [] n = "content-security-policy" -> "default-src 'self'"
          [] n = "x-frame-options" -> "DENY"
          [] n = "access-control-allow-origin" -> "https://upstream.example"
          [] OTHER -> "sid=1"]

\* the responses fetch() may resolve with; content-type is always there
UpstreamResponses ==
    {[status |-> st,
      headers |-> [n \in hs \cup {"content-type"} |-> UpstreamHeaderValue[n]],
      body |-> "upstream body"] :
        st \in {200, 400},
        hs \in SUBSET {"content-security-policy", "x-frame-options",
                       "access-control-allow-origin", "set-cookie"}}

\* the errors fetch() may reject with
FetchErrors == {[message |-> "getaddrinfo ENOTFOUND a"],
                [message |-> "connect ECONNREFUSED"]}

\* ------------------------------------------------------------------ actions

Init ==
    /\ mode \in Modes
    /\ pc = [i \in Events |-> "idle"]
    /\ request = [i \in Events |-> <<>>]
    /\ proxyRequest = [i \in Events |-> <<>>]
    /\ fetched = [i \in Events |-> <<>>]
    /\ upstream = [i \in Events |-> <<>>]
    /\ fetchError = [i \in Events |-> <<>>]
    /\ response = [i \in Events |-> <<>>]
    /\ console = <<>>

\* the fetch listener: event.respondWith(handleRequest(event.request)) runs
\* handleRequest up to its first await, or to its return or throw before it
FetchEvent(i, req) ==
    LET run == handleRequest(mode, req)
    IN /\ pc[i] = "idle"
       /\ request' = [request EXCEPT ![i] = <<req>>]
       /\ pc' = [pc EXCEPT ![i] = run.pc]
       /\ response' = [response EXCEPT ![i] = run.response]
       /\ proxyRequest' = [proxyRequest EXCEPT ![i] = run.proxyRequest]
       /\ fetched' = [fetched EXCEPT ![i] =
                        IF run.pc = "await" THEN fetched[i] \o run.proxyRequest
                        ELSE fetched[i]]
       /\ UNCHANGED <<mode, upstream, fetchError, console>>

\* await fetch(proxyRequest) resolves: the rest of the try block runs
FetchFulfilled(i, resp) ==
    /\ pc[i] = "await"
    /\ upstream' = [upstream EXCEPT ![i] = <<resp>>]
    /\ response' = [response EXCEPT ![i] = <<sanitize(mode, resp)>>]
    /\ pc' = [pc EXCEPT ![i] = "return_response"]
    /\ UNCHANGED <<mode, request, proxyRequest, fetched, fetchError, console>>

\* a handler that fetches once more after a failure
FetchRejectedRetries(i, error) ==
    /\ pc[i] = "await"
    /\ Len(fetched[i]) < 2
    /\ fetched' = [fetched EXCEPT ![i] = fetched[i] \o proxyRequest[i]]
    /\ console' = Append(console, error.message)
    /\ UNCHANGED <<mode, pc, request, proxyRequest, upstream, fetchError, response>>

\* await fetch(proxyRequest) rejects: the catch block runs
FetchRejected(i, error) ==
    /\ pc[i] = "await"
    /\ fetchError' = [fetchError EXCEPT ![i] = <<error>>]
    /\ console' = Append(console, error.message)
    /\ response' = [response EXCEPT ![i] = <<catch(mode, error)>>]
    /\ pc' = [pc EXCEPT ![i] = "return_failed"]
    /\ UNCHANGED <<mode, request, proxyRequest, fetched, upstream>>

\* one fetch event, every inbound request
Next ==
    \/ \E req \in InboundRequests : FetchEvent(1, req)
    \/ \E resp \in UpstreamResponses : FetchFulfilled(1, resp)
    \/ \E error \in FetchErrors : FetchRejected(1, error)

Spec == Init /\ [][Next]_vars

\* the requests and upstream responses of the concurrent runs
ConcPathnames ==
    LET u == Str(<<"h", "t", "t", "p", ":", "/", "/", "a">>)
    IN {Str(<<"/">>), proxyPrefix, proxyPrefix \o BadEscape,
        proxyPrefix \o encodeURIComponent(u), Str(<<"/">>) \o encodeURIComponent(u),
        proxyPrefix \o encodeURIComponent(HttpScheme)}

ConcRequests ==
    {r \in InboundRequests :
        r.pathname \in ConcPathnames /\ DOMAIN r.headers = {"host"}}

ConcUpstreamResponses ==
    {r \in UpstreamResponses :
        /\ DOMAIN r.headers \in {{"content-type"},
                                 {"content-type", "content-security-policy",
                                  "x-frame-options"}}
        /\ r.status = 200}

\* NumRequests fetch events, their handlers interleaved at the await
NextConc ==
    \E i \in Events :
        \/ \E req \in ConcRequests : FetchEvent(i, req)
        \/ \E resp \in ConcUpstreamResponses : FetchFulfilled(i, resp)
        \/ \E error \in FetchErrors : FetchRejected(i, error)

SpecConc == Init /\ [][NextConc]_vars

\* ------------------------------------------------------------------ claims

\* the events whose handler has been entered
Dispatched == {i \in Events : pc[i] # "idle"}

\* the pathname of event i
PathOf(i) == request[i][1].pathname

\* the response returned for event i
ResponseOf(i) == response[i][1]

\* the routing prefix of a deployment: what precedes the target segment
MarkerAt(path) ==
    {k \in 0..(Len(path) - 7) : SubSeq(path, k + 1, k + 7) = Str(<<"/", "p", "r", "o", "x", "x", "/">>)}

\* the path carries a target segment position: the marker is there /
\* the path starts with its '/'
HasSegment(m, path) ==
    IF m = "proxx" THEN MarkerAt(path) # {} ELSE Len(path) >= 1

\* the segment: what follows the first marker / the leading '/'
SegmentOf(m, path) ==
    IF m = "proxx"
    THEN LET k == CHOOSE k \in MarkerAt(path) : \A j \in MarkerAt(path) : k <= j
         IN SubSeq(path, k + 8, Len(path))
    ELSE SubSeq(path, 2, Len(path))

HexDigits == (48..57) \cup (65..70) \cup (97..102)

\* a '%' of the segment is not followed by two hexadecimal digits
HasInvalidEscape(seg) ==
    \E k \in 1..Len(seg) :
        /\ seg[k] = 37
        /\ \/ k + 2 > Len(seg)
           \/ seg[k + 1] \notin HexDigits
           \/ seg[k + 2] \notin HexDigits

\* the string begins with http:// or https://
BeginsWithHttp(t) ==
    \/ Len(t) >= 7 /\ SubSeq(t, 1, 7) = Str(<<"h", "t", "t", "p", ":", "/", "/">>)
    \/ Len(t) >= 8 /\ SubSeq(t, 1, 8) = Str(<<"h", "t", "t", "p", "s", ":", "/", "/">>)

\* event i has a target string: a segment that percent-decodes
HasTarget(i) ==
    /\ HasSegment(mode, PathOf(i))
    /\ ~decodeURIComponent(SegmentOf(mode, PathOf(i))).error

TargetOf(i) == decodeURIComponent(SegmentOf(mode, PathOf(i))).value

\* C1: no error escapes handleRequest: the handler of every dispatched
\* event returns a response or is still awaiting its fetch, it never throws.
\* The code violates it: new Request(targetUrl, ...) stands outside both try
\* blocks and throws a TypeError on a target such as "http://".
C1_NoErrorEscapes == \A i \in Dispatched : pc[i] # "threw"

C3_NonHttpTargetIs400 ==
    \A i \in Dispatched :
        (HasTarget(i) /\ ~BeginsWithHttp(TargetOf(i))) =>
            /\ pc[i] \in Returned
            /\ ResponseOf(i).status = 400

\* C3 amended: a target string that does not begin with http:// or https://
\* gets status 400 with the invalid-format message in both deployments,
\* except that the binding deployment answers the empty target (the path "/")
\* with the 200 root document.
C3_NonHttpTargetIs400UnlessBareRoot ==
    \A i \in Dispatched :
        (HasTarget(i) /\ ~BeginsWithHttp(TargetOf(i))) =>
            IF mode = "binding" /\ TargetOf(i) = <<>>
            THEN pc[i] = "return_root" /\ ResponseOf(i).status = 200
            ELSE /\ pc[i] = "return_format"
                 /\ ResponseOf(i).status = 400
                 /\ ResponseOf(i).body \in
                        {"Invalid target URL format.",
                         "Invalid target URL format. Must start with http:// or https://"}

\* witness of C3: an encoded ftp:// target was answered
C3_Witness ==
    \E i \in Dispatched :
        /\ HasTarget(i)
        /\ TargetOf(i) = Str(<<"f", "t", "p", ":", "/", "/", "a">>)
        /\ pc[i] = "return_format"

\* the path lacks the target segment, as C4 states it: no target after the
\* marker (the marker absent, or nothing behind it) / nothing after the '/'
LacksTargetAsStated(m, path) ==
    IF m = "proxx"
    THEN ~HasSegment(m, path) \/ SegmentOf(m, path) = <<>>
    ELSE Len(path) <= 1

\* the fallback document, status 200
IsRootDocument(resp) ==
    /\ resp.status = 200
    /\ resp.headers["content-type"] = "text/html"
    /\ resp.body \in
        {"<title>KENOS PROXX Root by ig0</title> Please use the main Pages URL"}
        \cup {"<title>KENOS PROXX Root by ig0</title> <a href=\"https://"
              \o h \o "/\">Go to Homepage</a>" : h \in Hostnames}

\* C4 as stated: every path lacking the target segment gets status 200 with
\* the fallback document.
C4_NoTargetIsRootPage ==
    \A i \in Dispatched :
        LacksTargetAsStated(mode, PathOf(i)) =>
            pc[i] = "return_root" /\ IsRootDocument(ResponseOf(i))

\* C4 amended: a path without the /proxx/ marker (the /proxx/ deployment) or
\* with nothing after its leading '/' (the binding deployment) gets status 200
\* with the fallback document; a path that holds the marker with nothing
\* behind it gets status 400 'Invalid target URL format.' instead.
C4_NoMarkerOrBareRootIsRootPage ==
    \A i \in Dispatched :
        /\ (IF mode = "proxx" THEN ~HasSegment(mode, PathOf(i))
                              ELSE Len(PathOf(i)) <= 1) =>
               pc[i] = "return_root" /\ IsRootDocument(ResponseOf(i))
        /\ (mode = "proxx" /\ HasSegment(mode, PathOf(i))
            /\ SegmentOf(mode, PathOf(i)) = <<>>) =>
               /\ pc[i] = "return_format"
               /\ ResponseOf(i).status = 400
               /\ ResponseOf(i).body = "Invalid target URL format."

\* witness of C4: the binding deployment answered the path "/"
C4_Witness ==
    \E i \in Dispatched :
        /\ mode = "binding"
        /\ PathOf(i) = Str(<<"/">>)
        /\ pc[i] = "return_root"

\* C5: an extracted segment with an invalid percent-escape (a '%' without two
\* hexadecimal digits, or escapes that are no UTF-8) gets status 400 with the
\* body 'Invalid URL encoding.', whatever else the segment holds: the scheme
\* check's message is never the answer for it.
C5_InvalidEscapeIs400 ==
    \A i \in Dispatched :
        (/\ HasSegment(mode, PathOf(i))
         /\ \/ HasInvalidEscape(SegmentOf(mode, PathOf(i)))
            \/ decodeURIComponent(SegmentOf(mode, PathOf(i))).error) =>
            /\ pc[i] = "return_encoding"
            /\ ResponseOf(i).status = 400
            /\ ResponseOf(i).body = "Invalid URL encoding."

\* witness of C5: a segment that starts with an encoded http:// and ends
\* with %zz was answered
C5_Witness ==
    \E i \in Dispatched :
        /\ HasSegment(mode, PathOf(i))
        /\ SegmentOf(mode, PathOf(i)) =
               Str(<<"h", "t", "t", "p", "%", "3", "A", "%", "2", "F", "%", "2", "F",
                     "a", "%", "z", "z">>)
        /\ pc[i] = "return_encoding"

\* C6: when the upstream fetch rejects, the handler returns status 500 with
\* the body 'Failed to fetch target URL: ' followed by the error's message.
C6_FetchFailureIs500 ==
    \A i \in Events : fetchError[i] # <<>> =>
        /\ pc[i] = "return_failed"
        /\ ResponseOf(i).status = 500
        /\ ResponseOf(i).headers["content-type"] = "text/plain;charset=UTF-8"
        /\ ResponseOf(i).body =
               "Failed to fetch target URL: " \o fetchError[i][1].message

\* witness of C6: the fetch of the /proxx/ deployment rejected
C6_Witness ==
    \E i \in Events :
        /\ mode = "proxx"
        /\ fetchError[i] = <<[message |-> "connect ECONNREFUSED"]>>
        /\ pc[i] = "return_failed"

\* the paths that carry the percent-encoding of u as their target segment
CarriesEncoded(m, path, u) ==
    IF m = "proxx"
    THEN path \in {Str(<<"/", "p", "r", "o", "x", "x", "/">>) \o encodeURIComponent(u),
                   Str(<<"/", "a", "/", "p", "r", "o", "x", "x", "/">>) \o encodeURIComponent(u)}
    ELSE path = Str(<<"/">>) \o encodeURIComponent(u)

\* C7: for an absolute URL u that begins with http:// or https://, a path
\* that carries encodeURIComponent(u) as its target segment makes the
\* handler fetch exactly u, once.
C7_EncodedUrlRoundTrips ==
    \A i \in Dispatched : \A u \in URLs :
        CarriesEncoded(mode, PathOf(i), u) =>
            /\ pc[i] \in {"await", "return_response", "return_failed"}
            /\ Len(proxyRequest[i]) = 1
            /\ proxyRequest[i][1].url = u
            /\ fetched[i] = proxyRequest[i]

\* witness of C7: a URL with characters of two, three and four UTF-8 octets
\* was fetched by the /proxx/ deployment
C7_Witness ==
    \E i \in Dispatched :
        LET u == Str(<<"h", "t", "t", "p", "s", ":", "/", "/", "a", "/",
                       "e'", "euro", "grin">>)
        IN /\ mode = "proxx"
           /\ CarriesEncoded(mode, PathOf(i), u)
           /\ fetched[i] # <<>>
           /\ fetched[i][1].url = u

\* C8: the request handed to fetch has the method, the headers and the body
\* of the inbound request, follows redirects, and is addressed to the decoded
\* target, which begins with http:// or https://.
C8_ForwardedVerbatim ==
    \A i \in Events : \A k \in 1..Len(fetched[i]) :
        LET out == fetched[i][k]
            in == request[i][1]
        IN /\ out.method = in.method
           /\ out.headers = in.headers
           /\ out.body = in.body
           /\ out.redirect = "follow"
           /\ HasTarget(i)
           /\ out.url = TargetOf(i)
           /\ BeginsWithHttp(out.url)

\* witness of C8: a POST with a body and an authorization header was forwarded
C8_Witness ==
    \E i \in Events :
        /\ fetched[i] # <<>>
        /\ request[i][1].method = "POST"
        /\ fetched[i][1].body = "payload"
        /\ "authorization" \in DOMAIN fetched[i][1].headers

\* C9: a handler fetches at most once and never again after a failure; it
\* has not fetched when it returns the root document or one of its own 400
\* answers (a relayed upstream response may itself carry status 400 and is
\* not meant); it fetches only when a segment was extracted, decoded and
\* begins with http:// or https://.
C9_SingleFetchAfterValidation ==
    \A i \in Events :
        /\ Len(fetched[i]) <= 1
        /\ pc[i] \in {"idle", "return_root", "return_encoding", "return_format",
                      "threw"} => fetched[i] = <<>>
        /\ pc[i] \in {"await", "return_response", "return_failed"} =>
               Len(fetched[i]) = 1
        /\ fetched[i] # <<>> =>
               /\ HasSegment(mode, PathOf(i))
               /\ ~HasInvalidEscape(SegmentOf(mode, PathOf(i)))
               /\ HasTarget(i)
               /\ BeginsWithHttp(TargetOf(i))

\* witness of C9: a fetch failed and the handler has answered
C9_Witness ==
    \E i \in Events :
        /\ pc[i] = "return_failed"
        /\ Len(fetched[i]) = 1

\* handling the request of event i alone, with the outcome its fetch had
AloneOutcome(i) ==
    LET run == handleRequest(mode, request[i][1])
    IN IF run.pc # "await" THEN [pc |-> run.pc, response |-> run.response]
       ELSE IF upstream[i] # <<>> THEN
           [pc |-> "return_response",
            response |-> <<[status |-> upstream[i][1].status,
                            headers |->
                                [n \in ((DOMAIN upstream[i][1].headers)
                                        \ {"content-security-policy", "x-frame-options"})
                                       \cup (IF mode = "binding"
                                             THEN {"access-control-allow-origin"}
                                             ELSE {}) |->
                                    IF mode = "binding" /\ n = "access-control-allow-origin"
                                    THEN "*" ELSE upstream[i][1].headers[n]],
                            body |-> upstream[i][1].body]>>]
       ELSE IF fetchError[i] # <<>> THEN
           [pc |-> "return_failed",
            response |-> <<[status |-> 500,
                            headers |-> [n \in {"content-type"} |->
                                            "text/plain;charset=UTF-8"],
                            body |-> "Failed to fetch target URL: "
                                     \o fetchError[i][1].message]>>]
       ELSE [pc |-> "await", response |-> <<>>]

\* C10: with the handlers of several requests interleaved at the await,
\* each request gets the response it gets when handled alone with the same
\* fetch outcome, and two events with the same request and the same outcome
\* get the same response.
C10_ResponseIsOwn ==
    /\ \A i \in Dispatched :
           /\ pc[i] = AloneOutcome(i).pc
           /\ response[i] = AloneOutcome(i).response
    /\ \A i, j \in Dispatched :
           (/\ request[i] = request[j]
            /\ upstream[i] = upstream[j]
            /\ fetchError[i] = fetchError[j]) =>
               pc[i] = pc[j] /\ response[i] = response[j]

\* witness of C10: of two events with the same request one has relayed its
\* upstream response while the handler of the other is still suspended
C10_Witness ==
    \E i, j \in Events :
        /\ i # j
        /\ request[i] = request[j]
        /\ pc[i] = "return_response"
        /\ pc[j] = "await"

====
